---- MODULE Spec2Model ----
(***************************************************************************)
(* UniFrac distances of skbio/diversity/beta/_unifrac.py.                  *)
(*                                                                         *)
(* Floating point numbers are modelled as exact fractions <<num, den>> in  *)
(* lowest terms (den > 0), with the two IEEE results a division by zero    *)
(* produces in numpy: NaN (0/0) and Inf (x/0, x > 0).  Python's None is    *)
(* the empty tuple.  Tree nodes are numbered 1..N in postorder; the root   *)
(* is node N and has parent 0.  An observation id is the number of the tip *)
(* it names.                                                               *)
(***************************************************************************)
EXTENDS Integers, Sequences, FiniteSets, TLC

VARIABLES
    tree,       \* [parent, length]: the rooted tree of the call
    otu_ids,    \* sequence of observation ids
    u_counts,   \* abundance vector of the first sample
    v_counts,   \* abundance vector of the second sample
    args,       \* [entry, metric, normalized, validate] of the call
    pc,         \* position inside the entry point
    trace,      \* the collaborators and helpers invoked so far, in order
    locals,     \* local variables of the running function
    result,     \* returned value, or None while running / after a raise
    dist        \* distances of the pair under every entry point (SpecEval)

vars == <<tree, otu_ids, u_counts, v_counts, args, pc, trace, locals, result, dist>>

inputs == <<tree, otu_ids, u_counts, v_counts>>

(* ------------------------------ bounds -------------------------------- *)

MaxNodes == 3
MaxLen == 1
MaxCount == 1

(* --------------------------- float arithmetic ------------------------- *)

None == <<>>
NaN == <<0, 0>>
Inf == <<1, 0>>

Abs(x) == IF x < 0 THEN -x ELSE x

RECURSIVE GCD(_, _)
GCD(a, b) == IF b = 0 THEN a ELSE GCD(b, a % b)

\* the float n / d, for d > 0
Rat(n, d) == LET g == GCD(Abs(n), d) IN <<n \div g, d \div g>>

Zero == Rat(0, 1)
One == Rat(1, 1)

IsNumber(x) == x # None /\ x[2] > 0

\* a / b on numpy floats: 0/0 is nan, x/0 is inf, nan propagates
Div(a, b) ==
    IF a = NaN \/ b = NaN THEN NaN
    ELSE IF b[1] = 0 /\ b[2] > 0 THEN (IF a[1] = 0 /\ a[2] > 0 THEN NaN ELSE Inf)
    ELSE IF b = Inf THEN (IF a = Inf THEN NaN ELSE Zero)
    ELSE IF a = Inf THEN Inf
    ELSE Rat(a[1] * b[2], a[2] * b[1])

\* 1 - a on numpy floats
OneMinus(a) ==
    IF a = NaN THEN NaN
    ELSE IF a = Inf THEN Inf
    ELSE Rat(a[2] - a[1], a[2])

LeqOne(a) == IsNumber(a) /\ a[1] <= a[2]
GeqZero(a) == IsNumber(a) /\ a[1] >= 0

RECURSIVE SumSeq(_)
SumSeq(s) == IF s = <<>> THEN 0 ELSE Head(s) + SumSeq(Tail(s))

(* -------------------------------- trees ------------------------------- *)

NumNodes(t) == Len(t.parent)
Nodes(t) == 1..NumNodes(t)

\* node a is node k or one of its ancestors
RECURSIVE Reaches(_, _, _)
Reaches(parent, k, a) ==
    IF k = a THEN TRUE
    ELSE IF k = 0 \/ k > a THEN FALSE
    ELSE Reaches(parent, parent[k], a)

Subtree(parent, a) == {k \in 1..Len(parent) : Reaches(parent, k, a)}

\* children precede their parent and every subtree is a contiguous block
IsPostorder(parent) ==
    \A a \in 1..Len(parent) :
        Subtree(parent, a) = (a - Cardinality(Subtree(parent, a)) + 1)..a

Parents(N) ==
    {p \in [1..N -> 0..N] :
        /\ p[N] = 0
        /\ \A n \in 1..(N - 1) : p[n] > n
        /\ IsPostorder(p)}

\* branch lengths are non-negative; the root's own length is zero
Lengths(N) == {l \in [1..N -> 0..MaxLen] : l[N] = 0}

UniformLengths(N) ==
    {[n \in 1..N |-> IF n = N THEN 0 ELSE x] : x \in 0..MaxLen}

Trees ==
    UNION {{[parent |-> p, length |-> l] : p \in Parents(N), l \in Lengths(N)} :
           N \in 2..MaxNodes}

UniformTrees ==
    UNION {{[parent |-> p, length |-> l] : p \in Parents(N), l \in UniformLengths(N)} :
           N \in 2..MaxNodes}

is_tip(t, n) == n \in Nodes(t) /\ \A k \in Nodes(t) : t.parent[k] # n

Tips(t) == {n \in Nodes(t) : is_tip(t, n)}

RECURSIVE SortedSeq(_)
SortedSeq(S) ==
    IF S = {} THEN <<>>
    ELSE LET m == CHOOSE x \in S : \A y \in S : x <= y
         IN <<m>> \o SortedSeq(S \ {m})

Reverse(s) == [k \in 1..Len(s) |-> s[Len(s) + 1 - k]]

\* observation ids name distinct tips; the tree may have more tips, and the
\* ids need not be in tree order
ObsIds(t) ==
    UNION {{SortedSeq(S), Reverse(SortedSeq(S))} : S \in (SUBSET Tips(t)) \ {{}}}

Counts(k) == [1..k -> 0..MaxCount]

(* ---------------------- external collaborators ------------------------ *)

\* aggregated state of one sample: entry n is the sum of the sample's
\* counts over the observed tips below (or at) node n
Aggregate(t, ids, counts) ==
    [n \in Nodes(t) |->
        SumSeq([k \in 1..Len(ids) |->
                    IF Reaches(t.parent, ids[k], n) THEN counts[k] ELSE 0])]

\* (count_array, indexed): count_array[n][s] for sample s, indexed carries
\* the branch lengths and the postorder position and tip flag of every node
_counts_and_index(counts, ids, t) ==
    [count_array |->
        [n \in Nodes(t) |-> [s \in 1..Len(counts) |-> Aggregate(t, ids, counts[s])[n]]],
     indexed |-> [length |-> t.length,
                  id_index |-> [n \in Nodes(t) |-> [id |-> n, is_tip |-> is_tip(t, n)]]]]

Column(count_array, s) == [n \in 1..Len(count_array) |-> count_array[n][s]]

RECURSIVE RootDistance(_, _, _)
RootDistance(length, t, n) ==
    IF n = 0 THEN 0 ELSE length[n] + RootDistance(length, t, t.parent[n])

\* aligned with the branch lengths: root-to-tip distance at tips, 0 elsewhere
_tip_distances(length, t, tip_indices) ==
    [n \in 1..Len(length) |->
        IF n \in tip_indices THEN RootDistance(length, t, n) ELSE 0]

\* _validate: equal lengths, and every id resolves to a tip of the tree
ValidationError(u, v, ids, t) ==
    IF Len(u) # Len(v) \/ Len(u) # Len(ids) THEN "ValueError"
    ELSE IF \E k \in 1..Len(ids) : ~is_tip(t, ids[k]) THEN "MissingNodeError"
    ELSE "ok"

(* ------------------------------ the metrics --------------------------- *)

\* variant: two empty samples are not resolved and fall through
_boundary_case_no_empty(u_sum, v_sum, normalized, unweighted) ==
    IF u_sum # 0 /\ v_sum # 0 THEN None
    ELSE IF unweighted \/ normalized THEN One ELSE None

\* variant: a single empty sample resolves to 1.0 whatever the flags
_boundary_case_eager(u_sum, v_sum, normalized, unweighted) ==
    IF u_sum # 0 /\ v_sum # 0 THEN None
    ELSE IF u_sum + v_sum # 0 THEN One
    ELSE Zero

\* variant: the first test looks at u_sum alone
_boundary_case_first_only(u_sum, v_sum, normalized, unweighted) ==
    IF u_sum # 0 THEN None
    ELSE IF u_sum + v_sum # 0
         THEN (IF unweighted \/ normalized THEN One ELSE None)
         ELSE Zero

\* 0.0, 1.0 or None (no boundary condition observed)
_boundary_case(u_sum, v_sum, normalized, unweighted) ==
    IF u_sum # 0 /\ v_sum # 0 THEN None
    ELSE IF u_sum + v_sum # 0
         THEN (IF unweighted \/ normalized THEN One ELSE None)
         ELSE Zero

\* sum(m * x) for a 0/1 or integer vector x aligned with m
Dot(m, x) == SumSeq([n \in 1..Len(m) |-> m[n] * x[n]])

LogicalOr(i, j) == [n \in 1..Len(i) |-> IF i[n] # 0 \/ j[n] # 0 THEN 1 ELSE 0]
LogicalAnd(i, j) == [n \in 1..Len(i) |-> IF i[n] # 0 /\ j[n] # 0 THEN 1 ELSE 0]

\* 1 - sum(m * and) / sum(m * or); the one-element tuple around _or only adds
\* a leading axis of length one, which the sum collapses
_unweighted_unifrac(m, i, j) ==
    LET _or == LogicalOr(i, j)
        _and == LogicalAnd(i, j)
    IN OneMinus(Div(Rat(Dot(m, _and), 1), Rat(Dot(m, _or), 1)))

\* variant: the absolute value is dropped
_weighted_unifrac_signed(m, i, j, i_sum, j_sum) ==
    LET i_den == IF i_sum # 0 THEN i_sum ELSE 1
        j_den == IF j_sum # 0 THEN j_sum ELSE 1
        i_num == [n \in 1..Len(m) |-> IF i_sum # 0 THEN i[n] ELSE 0]
        j_num == [n \in 1..Len(m) |-> IF j_sum # 0 THEN j[n] ELSE 0]
    IN Rat(SumSeq([n \in 1..Len(m) |->
                      m[n] * (i_num[n] * j_den - j_num[n] * i_den)]),
           i_den * j_den)

\* sum(m * |i_ - j_|) with i_ = i / i_sum, or the scalar 0.0 when i_sum is 0
_weighted_unifrac(m, i, j, i_sum, j_sum) ==
    LET i_den == IF i_sum # 0 THEN i_sum ELSE 1
        j_den == IF j_sum # 0 THEN j_sum ELSE 1
        i_num == [n \in 1..Len(m) |-> IF i_sum # 0 THEN i[n] ELSE 0]
        j_num == [n \in 1..Len(m) |-> IF j_sum # 0 THEN j[n] ELSE 0]
    IN Rat(SumSeq([n \in 1..Len(m) |->
                      m[n] * Abs(i_num[n] * j_den - j_num[n] * i_den)]),
           i_den * j_den)

\* sum(tip_dists * (i / i_sum + j / j_sum)), without a guard on the sums: an
\* all-zero sample divided by its zero sum is nan in every position
_branch_correct(tip_dists, i, j, i_sum, j_sum) ==
    IF i_sum = 0 \/ j_sum = 0 THEN NaN
    ELSE Rat(SumSeq([n \in 1..Len(tip_dists) |->
                        tip_dists[n] * (i[n] * j_sum + j[n] * i_sum)]),
             i_sum * j_sum)

\* positions of the tips in the indexed tree
TipIndices(indexed) ==
    {indexed.id_index[n].id : n \in {k \in DOMAIN indexed.id_index :
                                        indexed.id_index[k].is_tip}}

\* np.take(x, tip_idx).sum()
TakeSum(x, tip_idx) ==
    SumSeq([n \in 1..Len(x) |-> IF n \in tip_idx THEN x[n] ELSE 0])

(* ---------------------------- entry points ---------------------------- *)

\* lines 107-124, on validated (or unvalidated but well-formed) input
unweighted_unifrac(u, v, ids, t) ==
    LET boundary == _boundary_case(SumSeq(u), SumSeq(v), FALSE, TRUE)
        ci == _counts_and_index(<<u, v>>, ids, t)
        length == ci.indexed.length
    IN IF boundary # None THEN boundary
       ELSE _unweighted_unifrac(length, Column(ci.count_array, 1),
                                Column(ci.count_array, 2))

\* lines 208-239
weighted_unifrac(u, v, ids, t, normalized) ==
    LET u_sum == SumSeq(u)
        v_sum == SumSeq(v)
        boundary == _boundary_case(u_sum, v_sum, normalized, FALSE)
        ci == _counts_and_index(<<u, v>>, ids, t)
        ua == Column(ci.count_array, 1)
        va == Column(ci.count_array, 2)
        length == ci.indexed.length
        w == _weighted_unifrac(length, ua, va, u_sum, v_sum)
        tip_ds == _tip_distances(length, t, TipIndices(ci.indexed))
    IN IF boundary # None THEN boundary
       ELSE IF normalized
            THEN Div(w, _branch_correct(tip_ds, ua, va, u_sum, v_sum))
            ELSE w

Metrics == {"_unweighted_unifrac", "_weighted_unifrac"}

\* variant: the weighted closures sum the whole aggregated vector
ClosureSumAll(metric, tip_idx, x) == SumSeq(x)

\* the sums the closure f hands to _boundary_case
ClosureSum(metric, tip_idx, x) ==
    IF metric = "_unweighted_unifrac" THEN SumSeq(x) ELSE TakeSum(x, tip_idx)

\* the closure f of make_pdist applied to two rows of the transposed
\* aggregated matrix; env is what the closure captured
pdist_f(env, ua, va) ==
    LET u_sum == ClosureSum(env.metric, env.tip_idx, ua)
        v_sum == ClosureSum(env.metric, env.tip_idx, va)
    IN IF env.metric = "_unweighted_unifrac"
       THEN LET boundary == _boundary_case(u_sum, v_sum, FALSE, TRUE)
            IN IF boundary # None THEN boundary
               ELSE _unweighted_unifrac(env.length, ua, va)
       ELSE IF env.normalized
       THEN LET boundary == _boundary_case(u_sum, v_sum, TRUE, FALSE)
                tip_ds == _tip_distances(env.length, env.tree, env.tip_idx)
                w == _weighted_unifrac(env.length, ua, va, u_sum, v_sum)
            IN IF boundary # None THEN boundary
               ELSE Div(w, _branch_correct(tip_ds, ua, va, u_sum, v_sum))
       ELSE LET boundary == _boundary_case(u_sum, v_sum, FALSE, FALSE)
            IN IF boundary # None THEN boundary
               ELSE _weighted_unifrac(env.length, ua, va, u_sum, v_sum)

\* (f, count_array.T, length), or the error raised for an unknown metric
make_pdist(counts, obs_ids, t, metric, normalized) ==
    LET ci == _counts_and_index(counts, obs_ids, t)
        length == ci.indexed.length
    IN [raised |-> IF metric \in Metrics THEN "" ELSE "AttributeError",
        f |-> [metric |-> metric, normalized |-> normalized, length |-> length,
               tip_idx |-> TipIndices(ci.indexed), tree |-> t],
        counts |-> [s \in 1..Len(counts) |-> Column(ci.count_array, s)],
        length |-> length]

\* the pairwise function of make_pdist on rows 1 and 2 of the matrix it returns
PairwiseDistance(u, v, ids, t, metric, normalized) ==
    LET made == make_pdist(<<u, v>>, ids, t, metric, normalized)
    IN pdist_f(made.f, made.counts[1], made.counts[2])

(* ------------------- evaluation of a pair of samples ------------------ *)

NoDist == [unweighted |-> None, weighted |-> None, weighted_norm |-> None,
           pd_unweighted |-> None, pd_weighted |-> None, pd_weighted_norm |-> None]

NoArgs == [entry |-> "", metric |-> "", normalized |-> FALSE, validate |-> FALSE]
NoLocals == [boundary |-> None, u_sum |-> 0, v_sum |-> 0, u_agg |-> <<>>,
             v_agg |-> <<>>, length |-> <<>>, tip_ds |-> <<>>, u |-> None,
             error |-> ""]

InitEval ==
    /\ \E t \in Trees : \E ids \in ObsIds(t) :
         \E u \in Counts(Len(ids)), v \in Counts(Len(ids)) :
            /\ tree = t
            /\ otu_ids = ids
            /\ u_counts = u
            /\ v_counts = v
    /\ args = NoArgs
    /\ pc = "eval"
    /\ trace = <<>>
    /\ locals = NoLocals
    /\ result = None
    /\ dist = NoDist

Evaluate ==
    /\ pc = "eval"
    /\ pc' = "evaluated"
    /\ dist' =
        [unweighted |-> unweighted_unifrac(u_counts, v_counts, otu_ids, tree),
         weighted |-> weighted_unifrac(u_counts, v_counts, otu_ids, tree, FALSE),
         weighted_norm |-> weighted_unifrac(u_counts, v_counts, otu_ids, tree, TRUE),
         pd_unweighted |-> PairwiseDistance(u_counts, v_counts, otu_ids, tree,
                                            "_unweighted_unifrac", FALSE),
         pd_weighted |-> PairwiseDistance(u_counts, v_counts, otu_ids, tree,
                                          "_weighted_unifrac", FALSE),
         pd_weighted_norm |-> PairwiseDistance(u_counts, v_counts, otu_ids, tree,
                                               "_weighted_unifrac", TRUE)]
    /\ UNCHANGED <<inputs, args, trace, locals, result>>

NextEval == Evaluate

SpecEval == InitEval /\ [][NextEval]_vars

(* ------------------------- the calls, step by step -------------------- *)

TopLevel == {"unweighted_unifrac", "weighted_unifrac"}

\* the argument combinations of a call; make_pdist takes any metric object
CallArgs ==
    {[entry |-> "unweighted_unifrac", metric |-> "", normalized |-> FALSE,
      validate |-> b] : b \in BOOLEAN}
    \cup {[entry |-> "weighted_unifrac", metric |-> "", normalized |-> n,
           validate |-> b] : n \in BOOLEAN, b \in BOOLEAN}
    \cup {[entry |-> "make_pdist", metric |-> "_unweighted_unifrac",
           normalized |-> FALSE, validate |-> FALSE]}
    \cup {[entry |-> "make_pdist", metric |-> m, normalized |-> n,
           validate |-> FALSE] : m \in {"_weighted_unifrac", "other"}, n \in BOOLEAN}

ValidCallInputs ==
    UNION {UNION {{[tree |-> t, otu_ids |-> ids, u_counts |-> u, v_counts |-> v] :
                        u \in Counts(Len(ids)), v \in Counts(Len(ids))} :
                  ids \in ObsIds(t)} : t \in UniformTrees}

\* inputs validation rejects: a count vector one short, an id naming the root
InvalidCallInputs ==
    {[i EXCEPT !.v_counts = Tail(@)] : i \in ValidCallInputs}
    \cup {[i EXCEPT !.otu_ids[1] = NumNodes(i.tree)] : i \in ValidCallInputs}

Init ==
    /\ \E a \in CallArgs :
         \E i \in ValidCallInputs \cup
                  (IF a.validate THEN InvalidCallInputs ELSE {}) :
            /\ args = a
            /\ tree = i.tree
            /\ otu_ids = i.otu_ids
            /\ u_counts = i.u_counts
            /\ v_counts = i.v_counts
    /\ pc = "start"
    /\ trace = <<>>
    /\ locals = NoLocals
    /\ result = None
    /\ dist = NoDist

\* lines 103-104 and 204-205, validate set
Validate ==
    /\ pc = "start"
    /\ args.entry \in TopLevel
    /\ args.validate
    /\ trace' = Append(trace, "_validate")
    /\ LET e == ValidationError(u_counts, v_counts, otu_ids, tree)
       IN IF e = "ok"
          THEN pc' = "boundary" /\ UNCHANGED locals
          ELSE pc' = "raised" /\ locals' = [locals EXCEPT !.error = e]
    /\ UNCHANGED <<inputs, args, result, dist>>

\* lines 103 and 204, validate not set
SkipValidate ==
    /\ pc = "start"
    /\ args.entry \in TopLevel
    /\ ~args.validate
    /\ pc' = "boundary"
    /\ UNCHANGED <<inputs, args, trace, locals, result, dist>>

\* variant: the boundary value is computed but the call does not return on it
BoundaryCaseNoReturn ==
    /\ pc = "boundary"
    /\ LET u_sum == SumSeq(u_counts)
           v_sum == SumSeq(v_counts)
           boundary == _boundary_case(u_sum, v_sum, args.normalized,
                                      args.entry = "unweighted_unifrac")
       IN locals' = [locals EXCEPT !.u_sum = u_sum, !.v_sum = v_sum,
                                   !.boundary = boundary]
    /\ pc' = "index"
    /\ trace' = Append(trace, "_boundary_case")
    /\ UNCHANGED <<inputs, args, result, dist>>

\* lines 111-113 and 212-218
BoundaryCase ==
    /\ pc = "boundary"
    /\ LET u_sum == SumSeq(u_counts)
           v_sum == SumSeq(v_counts)
           boundary == _boundary_case(u_sum, v_sum, args.normalized,
                                      args.entry = "unweighted_unifrac")
       IN /\ locals' = [locals EXCEPT !.u_sum = u_sum, !.v_sum = v_sum,
                                      !.boundary = boundary]
          /\ IF boundary # None
             THEN pc' = "done" /\ result' = boundary
             ELSE pc' = "index" /\ UNCHANGED result
    /\ trace' = Append(trace, "_boundary_case")
    /\ UNCHANGED <<inputs, args, dist>>

\* lines 117-122 and 222-228
CountsAndIndex ==
    /\ pc = "index"
    /\ LET ci == _counts_and_index(<<u_counts, v_counts>>, otu_ids, tree)
       IN locals' = [locals EXCEPT !.u_agg = Column(ci.count_array, 1),
                                   !.v_agg = Column(ci.count_array, 2),
                                   !.length = ci.indexed.length]
    /\ trace' = Append(trace, "_counts_and_index")
    /\ pc' = "metric"
    /\ UNCHANGED <<inputs, args, result, dist>>

\* line 124
UnweightedMetric ==
    /\ pc = "metric"
    /\ args.entry = "unweighted_unifrac"
    /\ result' = _unweighted_unifrac(locals.length, locals.u_agg, locals.v_agg)
    /\ trace' = Append(trace, "_unweighted_unifrac")
    /\ pc' = "done"
    /\ UNCHANGED <<inputs, args, locals, dist>>

\* lines 230-231, and 239 when not normalized
WeightedMetric ==
    /\ pc = "metric"
    /\ args.entry = "weighted_unifrac"
    /\ LET u == _weighted_unifrac(locals.length, locals.u_agg, locals.v_agg,
                                  locals.u_sum, locals.v_sum)
       IN /\ locals' = [locals EXCEPT !.u = u]
          /\ IF args.normalized
             THEN pc' = "tip_distances" /\ UNCHANGED result
             ELSE pc' = "done" /\ result' = u
    /\ trace' = Append(trace, "_weighted_unifrac")
    /\ UNCHANGED <<inputs, args, dist>>

\* lines 234-236
TipDistances ==
    /\ pc = "tip_distances"
    /\ locals' = [locals EXCEPT !.tip_ds =
                     _tip_distances(locals.length, tree, Tips(tree))]
    /\ trace' = Append(trace, "_tip_distances")
    /\ pc' = "branch_correct"
    /\ UNCHANGED <<inputs, args, result, dist>>

\* lines 237-239
BranchCorrect ==
    /\ pc = "branch_correct"
    /\ result' = Div(locals.u, _branch_correct(locals.tip_ds, locals.u_agg,
                                               locals.v_agg, locals.u_sum,
                                               locals.v_sum))
    /\ trace' = Append(trace, "_branch_correct")
    /\ pc' = "done"
    /\ UNCHANGED <<inputs, args, locals, dist>>

\* lines 327-328: make_pdist aggregates before it looks at the metric
MakePdistIndex ==
    /\ pc = "start"
    /\ args.entry = "make_pdist"
    /\ LET ci == _counts_and_index(<<u_counts, v_counts>>, otu_ids, tree)
       IN locals' = [locals EXCEPT !.u_agg = Column(ci.count_array, 1),
                                   !.v_agg = Column(ci.count_array, 2),
                                   !.length = ci.indexed.length]
    /\ trace' = Append(trace, "_counts_and_index")
    /\ pc' = "dispatch"
    /\ UNCHANGED <<inputs, args, result, dist>>

\* lines 330-373: f is built and returned, or AttributeError is raised; the
\* returned f is then applied to rows 1 and 2 of the returned matrix
MakePdistDispatch ==
    /\ pc = "dispatch"
    /\ IF args.metric \in Metrics
       THEN pc' = "f_call" /\ UNCHANGED locals
       ELSE pc' = "raised" /\ locals' = [locals EXCEPT !.error = "AttributeError"]
    /\ UNCHANGED <<inputs, args, trace, result, dist>>

\* lines 332-334, 346-352, 361-366
FBoundaryCase ==
    /\ pc = "f_call"
    /\ LET u_sum == ClosureSum(args.metric, Tips(tree), locals.u_agg)
           v_sum == ClosureSum(args.metric, Tips(tree), locals.v_agg)
           boundary == _boundary_case(u_sum, v_sum,
                           args.metric = "_weighted_unifrac" /\ args.normalized,
                           args.metric = "_unweighted_unifrac")
       IN /\ locals' = [locals EXCEPT !.u_sum = u_sum, !.v_sum = v_sum,
                                      !.boundary = boundary]
          /\ IF boundary # None
             THEN pc' = "done" /\ result' = boundary
             ELSE /\ UNCHANGED result
                  /\ pc' = IF args.metric = "_weighted_unifrac" /\ args.normalized
                           THEN "f_tip_distances" ELSE "f_metric"
    /\ trace' = Append(trace, "_boundary_case")
    /\ UNCHANGED <<inputs, args, dist>>

\* line 354
FTipDistances ==
    /\ pc = "f_tip_distances"
    /\ locals' = [locals EXCEPT !.tip_ds =
                     _tip_distances(locals.length, tree, Tips(tree))]
    /\ trace' = Append(trace, "_tip_distances")
    /\ pc' = "f_metric"
    /\ UNCHANGED <<inputs, args, result, dist>>

\* line 335
FUnweightedMetric ==
    /\ pc = "f_metric"
    /\ args.metric = "_unweighted_unifrac"
    /\ result' = _unweighted_unifrac(locals.length, locals.u_agg, locals.v_agg)
    /\ trace' = Append(trace, "_unweighted_unifrac")
    /\ pc' = "done"
    /\ UNCHANGED <<inputs, args, locals, dist>>

\* lines 356 and 368-369
FWeightedMetric ==
    /\ pc = "f_metric"
    /\ args.metric = "_weighted_unifrac"
    /\ LET u == _weighted_unifrac(locals.length, locals.u_agg, locals.v_agg,
                                  locals.u_sum, locals.v_sum)
       IN /\ locals' = [locals EXCEPT !.u = u]
          /\ IF args.normalized
             THEN pc' = "f_branch_correct" /\ UNCHANGED result
             ELSE pc' = "done" /\ result' = u
    /\ trace' = Append(trace, "_weighted_unifrac")
    /\ UNCHANGED <<inputs, args, dist>>

\* lines 357-358
FBranchCorrect ==
    /\ pc = "f_branch_correct"
    /\ result' = Div(locals.u, _branch_correct(locals.tip_ds, locals.u_agg,
                                               locals.v_agg, locals.u_sum,
                                               locals.v_sum))
    /\ trace' = Append(trace, "_branch_correct")
    /\ pc' = "done"
    /\ UNCHANGED <<inputs, args, locals, dist>>

Next ==
    \/ Validate
    \/ SkipValidate
    \/ BoundaryCase
    \/ CountsAndIndex
    \/ UnweightedMetric
    \/ WeightedMetric
    \/ TipDistances
    \/ BranchCorrect
    \/ MakePdistIndex
    \/ MakePdistDispatch
    \/ FBoundaryCase
    \/ FTipDistances
    \/ FUnweightedMetric
    \/ FWeightedMetric
    \/ FBranchCorrect

Spec == Init /\ [][Next]_vars

(* ------------------------------ properties ---------------------------- *)

Evaluated == pc = "evaluated"
USum == SumSeq(u_counts)
VSum == SumSeq(v_counts)
UAgg == Aggregate(tree, otu_ids, u_counts)
VAgg == Aggregate(tree, otu_ids, v_counts)

\* C1: two samples whose sums are both zero are at distance exactly 0.0 under
\* unweighted_unifrac, weighted_unifrac (normalized or not) and the three
\* pairwise functions of make_pdist, on every tree.
C1_BothEmptyIsZero ==
    (Evaluated /\ USum = 0 /\ VSum = 0) =>
        /\ dist.unweighted = Zero
        /\ dist.weighted = Zero
        /\ dist.weighted_norm = Zero
        /\ dist.pd_unweighted = Zero
        /\ dist.pd_weighted = Zero
        /\ dist.pd_weighted_norm = Zero

C1_Witness ==
    /\ Evaluated
    /\ USum = 0 /\ VSum = 0
    /\ Len(otu_ids) > 1
    /\ \E n \in Nodes(tree) : tree.length[n] > 0
    /\ dist.weighted_norm = Zero /\ dist.pd_unweighted = Zero

\* C2: when exactly one sum is zero, the unweighted and the normalized weighted
\* distance are 1.0, while _boundary_case returns None for the unnormalized
\* weighted distance, which is sum(m * a / a_sum) for the aggregated vector a
\* of the non-empty sample.
C2_OneEmpty ==
    (Evaluated /\ (USum = 0) # (VSum = 0)) =>
        /\ dist.unweighted = One
        /\ dist.weighted_norm = One
        /\ _boundary_case(USum, VSum, FALSE, FALSE) = None
        /\ dist.weighted = IF USum = 0
                           THEN Rat(Dot(tree.length, VAgg), VSum)
                           ELSE Rat(Dot(tree.length, UAgg), USum)

C2_Witness ==
    /\ Evaluated
    /\ USum = 0 /\ VSum # 0
    /\ dist.unweighted = One
    /\ dist.weighted # One /\ dist.weighted # Zero

\* C3: the pairwise function of make_pdist, applied to the two rows of the
\* matrix make_pdist returns, gives the value of the top-level entry point on
\* the raw vectors, for each of the three metrics; the sum of an aggregated row
\* at the tips is the raw sum and the sum of the whole row is zero exactly when
\* the raw sum is.
C3_PdistAgreesWithEntryPoints ==
    Evaluated =>
        /\ dist.pd_unweighted = dist.unweighted
        /\ dist.pd_weighted = dist.weighted
        /\ dist.pd_weighted_norm = dist.weighted_norm
        /\ TakeSum(UAgg, Tips(tree)) = USum
        /\ TakeSum(VAgg, Tips(tree)) = VSum
        /\ (SumSeq(UAgg) = 0) = (USum = 0)
        /\ (SumSeq(VAgg) = 0) = (VSum = 0)

C3_Witness ==
    /\ Evaluated
    /\ USum # 0 /\ VSum # 0
    /\ SumSeq(UAgg) > USum
    /\ IsNumber(dist.pd_weighted) /\ dist.pd_weighted # Zero
    /\ dist.pd_weighted = dist.weighted
    /\ IsNumber(dist.pd_weighted_norm) /\ dist.pd_weighted_norm # Zero

\* C5 (as claimed): for samples with nonzero sums the normalized weighted
\* distance is a number in [0, 1].
C5_NormalizedInUnitInterval ==
    (Evaluated /\ USum # 0 /\ VSum # 0) =>
        /\ GeqZero(dist.weighted_norm) /\ LeqOne(dist.weighted_norm)
        /\ GeqZero(dist.pd_weighted_norm) /\ LeqOne(dist.pd_weighted_norm)

\* C6: the distances do not change when the two samples are swapped, and
\* neither does the value of _boundary_case when its two sums are swapped.
C6_Symmetric ==
    Evaluated =>
        /\ dist.unweighted = unweighted_unifrac(v_counts, u_counts, otu_ids, tree)
        /\ dist.weighted = weighted_unifrac(v_counts, u_counts, otu_ids, tree, FALSE)
        /\ dist.weighted_norm =
               weighted_unifrac(v_counts, u_counts, otu_ids, tree, TRUE)
        /\ \A n \in BOOLEAN, w \in BOOLEAN :
               _boundary_case(USum, VSum, n, w) = _boundary_case(VSum, USum, n, w)

C6_Witness ==
    /\ Evaluated
    /\ u_counts # v_counts
    /\ USum # 0 /\ VSum = 0
    /\ IsNumber(dist.weighted) /\ dist.weighted # Zero
    /\ dist.weighted = weighted_unifrac(v_counts, u_counts, otu_ids, tree, FALSE)

\* C7 (as claimed): two identical samples with a nonzero sum are at distance
\* 0.0 under the unweighted and both weighted distances.
C7_IdenticalIsZero ==
    (Evaluated /\ u_counts = v_counts /\ USum # 0) =>
        /\ dist.unweighted = Zero
        /\ dist.weighted = Zero
        /\ dist.weighted_norm = Zero

\* the two-tip star tree: tips A = 1 and B = 2 under the root 3, both at length 1
StarScenario ==
    /\ tree = [parent |-> <<3, 3, 0>>, length |-> <<1, 1, 0>>]
    /\ otu_ids = <<1, 2>>
    /\ u_counts = <<1, 0>>
    /\ v_counts = <<0, 1>>

\* C8 (as claimed): on the two-tip star tree with u = [1, 0] and v = [0, 1],
\* weighted_unifrac without normalization returns 1.0.
C8_StarWeightedIsOne ==
    (Evaluated /\ StarScenario) => dist.weighted = One

\* C8 (amended): on the two-tip star tree with u = [1, 0] and v = [0, 1],
\* weighted_unifrac without normalization returns 2.0, and 1.0 only with
\* normalized=True.
C8_StarWeightedIsTwo ==
    (Evaluated /\ StarScenario) =>
        /\ dist.weighted = Rat(2, 1)
        /\ dist.weighted_norm = One

C8_Witness ==
    /\ Evaluated
    /\ StarScenario
    /\ dist.weighted = Rat(2, 1)
    /\ dist.unweighted = One

\* the helpers a completed top-level call invokes, in order
FullTrace(a) ==
    (IF a.validate THEN <<"_validate">> ELSE <<>>)
    \o <<"_boundary_case", "_counts_and_index">>
    \o (IF a.entry = "unweighted_unifrac"
        THEN <<"_unweighted_unifrac">>
        ELSE <<"_weighted_unifrac">>
             \o (IF a.normalized THEN <<"_tip_distances", "_branch_correct">>
                 ELSE <<>>))

\* the helpers a top-level call invokes when _boundary_case resolves
ShortTrace(a) ==
    (IF a.validate THEN <<"_validate">> ELSE <<>>) \o <<"_boundary_case">>

IsPrefix(s, t) == Len(s) <= Len(t) /\ s = SubSeq(t, 1, Len(s))

Resolves(a) ==
    _boundary_case(USum, VSum, a.normalized, a.entry = "unweighted_unifrac") # None

\* C9: a top-level call runs validate (if set), _boundary_case on the raw
\* sums, _counts_and_index, the metric, in this order; when _boundary_case
\* resolves the call returns that value with nothing else invoked; and of the
\* two entry points only weighted_unifrac with normalized=True reaches
\* _tip_distances and _branch_correct.
C9_OrderOfSteps ==
    args.entry \in TopLevel =>
        /\ IsPrefix(trace, FullTrace(args))
        /\ (pc = "done" /\ Resolves(args)) =>
               /\ trace = ShortTrace(args)
               /\ result = _boundary_case(USum, VSum, args.normalized,
                                          args.entry = "unweighted_unifrac")
        /\ (pc = "done" /\ ~Resolves(args)) => trace = FullTrace(args)
        /\ (\E k \in 1..Len(trace) : trace[k] \in {"_tip_distances", "_branch_correct"})
               => (args.entry = "weighted_unifrac" /\ args.normalized)

C9_Witness ==
    /\ args.entry = "weighted_unifrac"
    /\ args.normalized
    /\ pc = "done"
    /\ trace = <<"_validate", "_boundary_case">>
    /\ result = One

\* C4 (as claimed): when make_pdist raises for an unknown metric, the Tree
\* Indexer has not been invoked.
C4_FailsBeforeIndexing ==
    (pc = "raised" /\ args.entry = "make_pdist") =>
        \A k \in 1..Len(trace) : trace[k] # "_counts_and_index"

\* C10 (as claimed): whenever _unweighted_unifrac is about to run after the
\* boundary check, sum(m * OR(i, j)) is not zero.
C10_ObservedTotalNonzero ==
    (\/ pc = "metric" /\ args.entry = "unweighted_unifrac"
     \/ pc = "f_metric" /\ args.metric = "_unweighted_unifrac")
        => Dot(locals.length, LogicalOr(locals.u_agg, locals.v_agg)) # 0

====
